---- MODULE Spec2Model ----
(***************************************************************************)
(* The authentication gate of the moc-docs site: the Next.js App component *)
(* (pages/_app.tsx), the login page (pages/login.tsx) and the edge         *)
(* middleware (middleware.ts), over the Supabase session store and the     *)
(* user_roles table; the auth-check endpoint (api/auth-check.js); and the  *)
(* diagram zoom widget (the enhanced script and public/mermaid-zoom.js).   *)
(*                                                                         *)
(* Strings that are encoded, decoded or parsed (paths, URLs) are sequences *)
(* of one-character strings, so that encodeURIComponent, the query parser  *)
(* and startsWith are computed character by character.  The empty sequence *)
(* stands for JavaScript's undefined / empty string (both falsy).          *)
(***************************************************************************)
EXTENDS Integers, Sequences, FiniteSets, Bags, TLC

VARIABLES
    session,       \* Session Store: "null" or the signed-in user id
    roleRec,       \* user_roles row of the user: "none" or its role
    faults,        \* transient backend failures still to come
    asPath,        \* router.asPath of the current route
    pendingNav,    \* url of the route change in flight (router.push), <<>> if none
    user,          \* App state: user
    loading,       \* App state: loading
    subscription,  \* asPath captured by the live onAuthStateChange callback, <<>> if none
    tasks,         \* in-flight App.checkAuth runs (a bag of runs)
    gateDecision,  \* outcome of the most recent completed App.checkAuth run
    ev,            \* what the last step of the Gate did (observation only)
    lerror,        \* Login state: error
    ltasks,        \* in-flight runs of the Login page's checkAuth and handleSignIn
    navs,          \* link clicks the viewer still makes during a login detour
    lloading,      \* Login state: loading
    variant,       \* which local-form variant of the Login page is deployed
    edge,          \* the last request the edge middleware answered
    zoom           \* the diagram zoom widget and the document it runs in

loginVars == <<lerror, ltasks, navs, lloading, variant>>

vars == <<session, roleRec, faults, asPath, pendingNav, user, loading,
          subscription, tasks, gateDecision, ev, lerror, ltasks, navs, lloading,
          variant, edge, zoom>>

-----------------------------------------------------------------------------
(* Bounds *)

MaxTasks == 2
MaxFaults == 1
MaxNavs == 1

-----------------------------------------------------------------------------
(* Strings *)

RootPath == <<"/">>
RefSchemaPath ==
    <<"/", "r", "e", "f", "e", "r", "e", "n", "c", "e", "/", "s", "c", "h", "e", "m", "a">>
DocsQueryPath == <<"/", "d", "?", "q", "=", "1">>
ApiPath == <<"/", "a", "p", "i", "/", "x">>
LoginPath == <<"/", "l", "o", "g", "i", "n">>
ApiPrefix == <<"/", "a", "p", "i", "/">>
LoginRedirectPrefix == LoginPath \o <<"?", "r", "e", "d", "i", "r", "e", "c", "t", "=">>
RedirectKey == <<"r", "e", "d", "i", "r", "e", "c", "t">>

NavPaths == {RefSchemaPath, DocsQueryPath, ApiPath, LoginPath}

startsWith(s, p) == Len(s) >= Len(p) /\ SubSeq(s, 1, Len(p)) = p

\* Characters encodeURIComponent escapes, with their UTF-8 percent codes; every
\* other character of the model's alphabet (letters, digits) is unreserved.
PercentCode ==
    [c \in {"/", "?", "=", "%", "&"} |->
        CASE c = "/" -> <<"%", "2", "F">>
          [] c = "?" -> <<"%", "3", "F">>
          [] c = "=" -> <<"%", "3", "D">>
          [] c = "%" -> <<"%", "2", "5">>
          [] c = "&" -> <<"%", "2", "6">>]

RECURSIVE encodeURIComponent(_)
encodeURIComponent(s) ==
    IF s = <<>> THEN <<>>
    ELSE (IF Head(s) \in DOMAIN PercentCode THEN PercentCode[Head(s)] ELSE <<Head(s)>>)
         \o encodeURIComponent(Tail(s))

PercentChar ==
    [h \in {<<"2", "F">>, <<"3", "F">>, <<"3", "D">>, <<"2", "5">>, <<"2", "6">>} |->
        CASE h = <<"2", "F">> -> "/"
          [] h = <<"3", "F">> -> "?"
          [] h = <<"3", "D">> -> "="
          [] h = <<"2", "5">> -> "%"
          [] h = <<"2", "6">> -> "&"]

\* Index of the first occurrence of character c in s at or after i, 0 if there is none.
RECURSIVE IndexFrom(_, _, _)
IndexFrom(s, c, i) ==
    IF i > Len(s) THEN 0 ELSE IF s[i] = c THEN i ELSE IndexFrom(s, c, i + 1)

IndexOf(s, c) == IndexFrom(s, c, 1)

\* router.pathname of a url: the part before the query string.
Pathname(url) ==
    IF IndexOf(url, "?") = 0 THEN url ELSE SubSeq(url, 1, IndexOf(url, "?") - 1)

\* The value of a query parameter that starts at index i of url, percent-decoded:
\* it ends at the next & or at the end of the url.
DecodeValue_Raw(url, i) == SubSeq(url, i, Len(url))
RECURSIVE DecodeValue(_, _)
DecodeValue(url, i) ==
    IF i > Len(url) \/ url[i] = "&" THEN <<>>
    ELSE IF url[i] = "%" /\ i + 2 <= Len(url) /\ SubSeq(url, i + 1, i + 2) \in DOMAIN PercentChar
         THEN <<PercentChar[SubSeq(url, i + 1, i + 2)]>> \o DecodeValue(url, i + 3)
         ELSE <<url[i]>> \o DecodeValue(url, i + 1)

\* Index at which the value of parameter redirect starts, scanning the pairs
\* k=v&k=v... of url from index i; 0 when the parameter is absent.
RECURSIVE RedirectValueAt(_, _)
RedirectValueAt(url, i) ==
    IF i > Len(url) THEN 0
    ELSE IF /\ i + Len(RedirectKey) <= Len(url)
            /\ SubSeq(url, i, i + Len(RedirectKey) - 1) = RedirectKey
            /\ url[i + Len(RedirectKey)] = "="
         THEN i + Len(RedirectKey) + 1
         ELSE IF IndexFrom(url, "&", i) = 0 THEN 0
              ELSE RedirectValueAt(url, IndexFrom(url, "&", i) + 1)

\* router.query.redirect of a url; <<>> when the url has no such parameter.
QueryRedirect(url) ==
    IF IndexOf(url, "?") = 0 \/ RedirectValueAt(url, IndexOf(url, "?") + 1) = 0 THEN <<>>
    ELSE DecodeValue(url, RedirectValueAt(url, IndexOf(url, "?") + 1))

-----------------------------------------------------------------------------
(* App (pages/_app.tsx) *)

\* No widget tracked in the page.
NoZoom == [on |-> FALSE]

NoUser == [id |-> "null", role |-> "null"]
Roles == {"developer", "admin", "user"}

\* The guard of the effect: no evaluation on the login page and on API routes.
Bypass_NoLogin(pathname) == startsWith(pathname, ApiPrefix)
Bypass(pathname) == pathname = LoginPath \/ startsWith(pathname, ApiPrefix)

\* `/login?redirect=${encodeURIComponent(router.asPath)}`
LoginUrl_Raw(path) == LoginRedirectPrefix \o path
LoginUrl(path) == LoginRedirectPrefix \o encodeURIComponent(path)

\* roleData.role !== 'developer' is the wrong-role test of the Gate.
GateAllows_Any(role) == TRUE
GateAllows(role) == role = "developer"

\* What the App renders: the spinner, or the page Component of the route.
Rendered ==
    IF loading /\ Pathname(asPath) # LoginPath /\ ~startsWith(Pathname(asPath), ApiPrefix)
    THEN "spinner" ELSE "component"

\* A run of checkAuth: where it waits, the asPath of the router it closed over,
\* and the user id of the session it fetched.
Run(pc, path, uid) == [pc |-> pc, asPath |-> path, uid |-> uid]
Add(b, t) == b (+) SetToBag({t})
Remove(b, t) == b (-) SetToBag({t})

\* The observation of a step of the Gate; every other step leaves Quiet.
Obs(op, decision, path, result, pushed, signOut, setUser) ==
    [op |-> op, decision |-> decision, asPath |-> path, result |-> result,
     pushed |-> pushed, signOut |-> signOut, setUser |-> setUser]
Quiet == Obs("none", "none", <<>>, "none", <<>>, FALSE, FALSE)

-----------------------------------------------------------------------------
(* Edge middleware (middleware.ts, Supabase cookie variant) *)

publicPaths == {LoginPath}

\* URLSearchParams serialisation of a parameter value (searchParams.set): on the
\* model's alphabet it escapes the same characters as encodeURIComponent.
formUrlEncode(s) == encodeURIComponent(s)

\* config.matcher: '/((?!_next/static|_next/image|favicon.ico|api|login).*)'
MatcherMatches(pathname) ==
    /\ ~startsWith(pathname, <<"/", "a", "p", "i">>)
    /\ ~startsWith(pathname, LoginPath)

\* hasValidSession of the middleware for a cookie jar c.
hasValidSession(c) == c.access \/ c.authToken = "token"

\* The url the browser lands on when it requests url with cookie jar c.
Middleware(url, c) ==
    IF ~MatcherMatches(Pathname(url)) THEN url
    ELSE IF \E p \in publicPaths : startsWith(Pathname(url), p) THEN url
    ELSE IF ~hasValidSession(c)
         THEN LoginRedirectPrefix \o formUrlEncode(Pathname(url))
         ELSE url

\* The cookies a request carries: sb-access-token, sb-refresh-token, and the
\* sb-<ref>-auth-token cookie (absent, JSON with or without access_token, not JSON).
CookieJars ==
    [access : BOOLEAN, refresh : BOOLEAN,
     authToken : {"absent", "token", "notoken", "garbage"}]

\* The jars the page loads of the model are made with.
RequestJars ==
    {[access |-> FALSE, refresh |-> FALSE, authToken |-> "absent"],
     [access |-> TRUE, refresh |-> TRUE, authToken |-> "absent"],
     [access |-> FALSE, refresh |-> TRUE, authToken |-> "garbage"]}

\* The middleware that always passes through (the filter disabled).
PassThrough(url, c) == url

\* The deployed middleware answers the request for url with cookie jar c.
Filters == {"supabase", "passThrough"}
Answer(f, url, c) == IF f = "passThrough" THEN PassThrough(url, c) ELSE Middleware(url, c)

\* The request the edge answered last: which middleware is deployed, the cookie
\* jar and the url of the request, and the url of the answer.
Edge(f, c, url) == [filter |-> f, jar |-> c, url |-> url, res |-> Answer(f, url, c)]

\* No request tracked at the edge.
NoEdge ==
    [filter |-> "supabase",
     jar |-> [access |-> FALSE, refresh |-> FALSE, authToken |-> "absent"],
     url |-> <<>>, res |-> <<>>]

\* The urls a page load can land on: a requested path as the middleware answers it.
Landings == {Middleware(p, c) : p \in NavPaths, c \in RequestJars}

-----------------------------------------------------------------------------
(* The effect of App: useEffect(..., [router]) *)

\* tasks after the effect ran for route a: checkAuth() is started unless bypassed.
EffectTasks(a, ts) ==
    IF Bypass(Pathname(a)) THEN ts ELSE Add(ts, Run("getSession", a, "null"))

\* loading after the effect ran: setLoading(false) on the bypassed paths.
EffectLoading(a, l) == IF Bypass(Pathname(a)) THEN FALSE ELSE l

\* The onAuthStateChange subscription made by the effect (none when bypassed).
EffectSubscription(a) == IF Bypass(Pathname(a)) THEN <<>> ELSE a

EffectObs(op, a) ==
    Obs(op, "none", a, IF Bypass(Pathname(a)) THEN "bypass" ELSE "checkAuth",
        <<>>, FALSE, FALSE)

\* A fresh App instance on the url the browser landed on.
Loaded(a) ==
    /\ asPath = a
    /\ tasks = EffectTasks(a, EmptyBag)
    /\ loading = EffectLoading(a, TRUE)
    /\ subscription = EffectSubscription(a)
    /\ pendingNav = <<>>
    /\ user = NoUser
    /\ gateDecision = "none"
    /\ ev = EffectObs("load", a)

Init ==
    /\ session \in {"null", "u1"}
    /\ roleRec \in {"none"} \cup Roles
    /\ faults = MaxFaults
    /\ \E a \in Landings : Loaded(a)
    /\ lerror = ""
    /\ ltasks = EmptyBag
    /\ navs = 0
    /\ lloading = FALSE
    /\ variant = "developer"
    /\ edge = NoEdge
    /\ zoom = NoZoom

\* A new App instance mounts on url a: the runs in flight die with the old page.
Mount(a) ==
    /\ asPath' = a
    /\ tasks' = EffectTasks(a, EmptyBag)
    /\ loading' = EffectLoading(a, TRUE)
    /\ subscription' = EffectSubscription(a)
    /\ pendingNav' = <<>>
    /\ user' = NoUser
    /\ gateDecision' = "none"
    /\ ev' = EffectObs("load", a)

\* The browser loads a page afresh and lands on a.
HardLoad(a) ==
    /\ Mount(a)
    /\ UNCHANGED <<session, roleRec, faults, loginVars, edge, zoom>>

\* The viewer follows a link to p: router.push(p); a pending route change is cancelled.
UserNavigate(p) ==
    /\ pendingNav' = p
    /\ ev' = Quiet
    /\ UNCHANGED <<session, roleRec, faults, asPath, user, loading, subscription,
                   tasks, gateDecision, loginVars, edge, zoom>>

\* The route change in flight completes: the router changes, the cleanup of the
\* previous effect unsubscribes and the effect runs for the new route.
AppRouteChange ==
    /\ pendingNav # <<>>
    /\ Bypass(Pathname(pendingNav)) \/ BagCardinality(tasks) < MaxTasks
    /\ asPath' = pendingNav
    /\ pendingNav' = <<>>
    /\ tasks' = EffectTasks(pendingNav, tasks)
    /\ loading' = EffectLoading(pendingNav, loading)
    /\ subscription' = EffectSubscription(pendingNav)
    /\ ev' = EffectObs("effect", pendingNav)
    /\ UNCHANGED <<session, roleRec, faults, user, gateDecision>>

\* A route change of the App under an arbitrary page component: what the pages do
\* (pushes, sign-in, sign-out) is left to UserNavigate and the environment.
RouteChange == AppRouteChange /\ UNCHANGED <<loginVars, edge, zoom>>

-----------------------------------------------------------------------------
(* App.checkAuth *)

\* A branch that ends the run without sign-out: router.push(login url), return
\* (or the catch block), then finally setLoading(false).
Deny_SignOut(t, decision, result, fault) ==
    /\ pendingNav' = LoginUrl(t.asPath)
    /\ loading' = FALSE
    /\ tasks' = Remove(tasks, t)
    /\ gateDecision' = decision
    /\ faults' = faults - fault
    /\ session' = "null"
    /\ ev' = Obs("checkAuth", decision, t.asPath, result, <<LoginUrl(t.asPath)>>,
                 FALSE, FALSE)
    /\ UNCHANGED <<roleRec, asPath, user, subscription, loginVars, edge, zoom>>
Deny(t, decision, result, fault) ==
    /\ pendingNav' = LoginUrl(t.asPath)
    /\ loading' = FALSE
    /\ tasks' = Remove(tasks, t)
    /\ gateDecision' = decision
    /\ faults' = faults - fault
    /\ ev' = Obs("checkAuth", decision, t.asPath, result, <<LoginUrl(t.asPath)>>,
                 FALSE, FALSE)
    /\ UNCHANGED <<session, roleRec, asPath, user, subscription, loginVars, edge, zoom>>

\* await supabase.auth.getSession() returns (or throws).
GetSessionDone(t) ==
    /\ t.pc = "getSession"
    /\ \/ /\ session # "null"
          /\ tasks' = Add(Remove(tasks, t), Run("role", t.asPath, session))
          /\ ev' = Obs("getSession", "none", t.asPath, "session", <<>>, FALSE, FALSE)
          /\ UNCHANGED <<session, roleRec, faults, asPath, pendingNav, user, loading,
                         subscription, gateDecision, loginVars, edge, zoom>>
       \/ /\ session = "null"
          /\ Deny(t, "DENY_NO_SESSION", "nosession", 0)
       \/ /\ faults > 0
          /\ Deny(t, "DENY_NO_SESSION", "sessionError", 1)
       \/ /\ faults > 0
          /\ Deny(t, "DENY_ERROR", "throw", 1)

\* The answers .from('user_roles').select('role').eq('user_id', id).single() gives
\* when the backend is reachable: the row, or no row (reported with or without error).
RoleAnswers ==
    IF roleRec = "none"
    THEN {[data |-> "none", error |-> TRUE], [data |-> "none", error |-> FALSE]}
    ELSE {[data |-> roleRec, error |-> FALSE]}

AnswerKind(res) ==
    IF res.error THEN "roleError" ELSE IF res.data = "none" THEN "noRecord" ELSE res.data

\* roleError || !roleData
RoleLookupFailed_Never(res) == FALSE
RoleLookupFailed_Always(res) == TRUE
RoleLookupFailed(res) == res.error \/ res.data = "none"

\* The role lookup returns (or throws).
RoleDone(t) ==
    /\ t.pc = "role"
    /\ \/ \E res \in RoleAnswers \cup
                     (IF faults > 0 THEN {[data |-> "none", error |-> TRUE]} ELSE {}) :
          LET fault == IF res \in RoleAnswers THEN 0 ELSE 1 IN
             IF RoleLookupFailed(res)
             THEN Deny(t, "DENY_ERROR", AnswerKind(res), fault)
             ELSE IF ~GateAllows(res.data)
             THEN /\ tasks' = Add(Remove(tasks, t), Run("signOut", t.asPath, t.uid))
                  /\ faults' = faults - fault
                  /\ ev' = Obs("role", "none", t.asPath, AnswerKind(res), <<>>,
                               FALSE, FALSE)
                  /\ UNCHANGED <<session, roleRec, asPath, pendingNav, user, loading,
                                 subscription, gateDecision, loginVars, edge, zoom>>
             ELSE /\ user' = [id |-> t.uid, role |-> res.data]
                  /\ loading' = FALSE
                  /\ tasks' = Remove(tasks, t)
                  /\ gateDecision' = "ALLOW"
                  /\ faults' = faults - fault
                  /\ ev' = Obs("checkAuth", "ALLOW", t.asPath, AnswerKind(res), <<>>,
                               FALSE, TRUE)
                  /\ UNCHANGED <<session, roleRec, asPath, pendingNav, subscription,
                                 loginVars, edge, zoom>>
       \/ /\ faults > 0
          /\ Deny(t, "DENY_ERROR", "throw", 1)

\* The onAuthStateChange callback of the live subscription, for an event that is
\* SIGNED_OUT or carries no session: the urls it pushes and the user it leaves.
CallbackPushes_None == <<>>
CallbackPushes ==
    IF subscription # <<>> /\ Pathname(subscription) # LoginPath
    THEN <<LoginUrl(subscription)>> ELSE <<>>
CallbackUser == IF subscription # <<>> THEN NoUser ELSE user

\* Session left by supabase.auth.signOut().
SignedOut_Keeps(s) == s
SignedOut(s) == "null"

\* await supabase.auth.signOut() returns: the session is removed, the subscribers
\* are notified (SIGNED_OUT), then the run pushes the login url and ends.
SignOutDone(t) ==
    /\ t.pc = "signOut"
    /\ session' = SignedOut(session)
    /\ user' = CallbackUser
    /\ pendingNav' = LoginUrl(t.asPath)
    /\ loading' = FALSE
    /\ tasks' = Remove(tasks, t)
    /\ gateDecision' = "DENY_WRONG_ROLE"
    /\ ev' = Obs("checkAuth", "DENY_WRONG_ROLE", t.asPath, "wrongRole",
                 CallbackPushes \o <<LoginUrl(t.asPath)>>, TRUE, FALSE)
    /\ UNCHANGED <<roleRec, faults, asPath, subscription, loginVars, edge, zoom>>

-----------------------------------------------------------------------------
(* Environment *)

\* The session ends outside this page (expiry, another tab): SIGNED_OUT is delivered.
ExternalSignOut ==
    /\ session # "null"
    /\ session' = "null"
    /\ user' = CallbackUser
    /\ pendingNav' = IF CallbackPushes # <<>> THEN CallbackPushes[1] ELSE pendingNav
    /\ ev' = Obs("onAuthStateChange", "none", subscription, "SIGNED_OUT",
                 CallbackPushes, FALSE, subscription # <<>>)
    /\ UNCHANGED <<roleRec, faults, asPath, loading, subscription, tasks, gateDecision,
                   loginVars, edge, zoom>>

\* A session appears outside this page (another tab): SIGNED_IN carries a session,
\* the callback does nothing.
ExternalSignIn ==
    /\ session = "null"
    /\ session' = "u1"
    /\ ev' = Quiet
    /\ UNCHANGED <<roleRec, faults, asPath, pendingNav, user, loading, subscription,
                   tasks, gateDecision, loginVars, edge, zoom>>

Next ==
    \/ \E a \in Landings : HardLoad(a)
    \/ \E p \in NavPaths : UserNavigate(p)
    \/ RouteChange
    \/ \E t \in BagToSet(tasks) : GetSessionDone(t)
    \/ \E t \in BagToSet(tasks) : RoleDone(t)
    \/ \E t \in BagToSet(tasks) : SignOutDone(t)
    \/ ExternalSignOut
    \/ ExternalSignIn

Spec == Init /\ [][Next]_vars

-----------------------------------------------------------------------------
(* Login page (pages/login.tsx, local form): the check on mount and the form *)

\* The two local-form variants of the page differ in the roles they forward.
LoginVariants == {"developer", "developerOrAdmin"}

\* A run of Login's checkAuth (by "load": the instance hydrated after a page load;
\* by "mount": the instance mounted by a client-side route change) or of handleSignIn
\* (by "submit"): where it waits, the asPath of the route it started on, the redirect
\* its checkDeveloperRole closed over, the user id (for a sign-in in flight: the user
\* the credentials belong to, "null" when they are wrong), and whether its Login
\* instance is still mounted.
LRun(pc, by, url, redirect, uid, live) ==
    [pc |-> pc, by |-> by, url |-> url, redirect |-> redirect, uid |-> uid,
     live |-> live]

\* The runs after their Login instance unmounted: they go on, their setState calls
\* reach nothing.
Unmounted(b) ==
    LET dead == {[t EXCEPT !.live = FALSE] : t \in BagToSet(b)}
    IN [d \in dead |-> CopiesIn([d EXCEPT !.live = TRUE], b) + CopiesIn(d, b)]

\* roleData?.role === 'developer'
LoginAllows_Any(role) == TRUE
LoginAllows(role) == role = "developer"

\* roleData?.role === 'developer' || roleData?.role === 'admin'
LoginAllowsAdmin(role) == role = "developer" \/ role = "admin"

\* The role test of the deployed variant.
LoginPolicy(v, role) ==
    IF v = "developerOrAdmin" THEN LoginAllowsAdmin(role) ELSE LoginAllows(role)

\* router.push((redirect as string) || '/')
ForwardTarget_Root(redirect) == RootPath
ForwardTarget(redirect) == IF redirect # <<>> THEN redirect ELSE RootPath

\* setError(msg) of a run: it reaches the state only of a mounted instance.
SetError_Generic(t, msg) == IF t.live THEN "An unexpected error occurred" ELSE lerror
SetError(t, msg) == IF t.live THEN msg ELSE lerror

\* finally { setLoading(false) } of handleSignIn, when a run ends.
Finally(t) == IF t.by = "submit" /\ t.live THEN FALSE ELSE lloading

\* The observation of a step of the Login page.
LoginOp(t) ==
    CASE ~t.live -> "unmounted"
      [] t.by = "submit" -> "form"
      [] t.by = "mount" -> "mount"
      [] OTHER -> "hydrate"
LObs(t, result, pushed, signOut) ==
    Obs(LoginOp(t), "none", t.url, result, pushed, signOut, FALSE)

\* The route change completes and the page component follows the route: Login mounts
\* (its effect starts checkAuth) when the route enters /login, and unmounts when it
\* leaves; a change of the query alone re-renders the mounted Login.
Entering(from, to) == Pathname(to) = LoginPath /\ Pathname(from) # LoginPath
Leaving(from, to) == Pathname(to) # LoginPath /\ Pathname(from) = LoginPath

LoginRouteChange ==
    /\ Entering(asPath, pendingNav) => BagCardinality(ltasks) < MaxTasks
    /\ AppRouteChange
    /\ ltasks' = IF Entering(asPath, pendingNav)
                 THEN Add(ltasks, LRun("getSession", "mount", pendingNav,
                                       QueryRedirect(pendingNav), "null", TRUE))
                 ELSE IF Leaving(asPath, pendingNav) THEN Unmounted(ltasks) ELSE ltasks
    /\ lerror' = IF Entering(asPath, pendingNav) \/ Leaving(asPath, pendingNav)
                 THEN "" ELSE lerror
    /\ lloading' = IF Entering(asPath, pendingNav) \/ Leaving(asPath, pendingNav)
                   THEN FALSE ELSE lloading
    /\ UNCHANGED <<navs, variant, edge, zoom>>

\* Login.checkAuth: await supabase.auth.getSession() returns; a failure leaves no
\* session in hand (or an unhandled rejection) and the run ends.
LGetSessionDone(t) ==
    /\ t.pc = "getSession"
    /\ \/ /\ session # "null"
          /\ ltasks' = Add(Remove(ltasks, t),
                           LRun("role", t.by, t.url, t.redirect, session, t.live))
          /\ ev' = LObs(t, "session", <<>>, FALSE)
          /\ UNCHANGED faults
       \/ /\ session = "null"
          /\ ltasks' = Remove(ltasks, t)
          /\ ev' = LObs(t, "nosession", <<>>, FALSE)
          /\ UNCHANGED faults
       \/ /\ faults > 0
          /\ ltasks' = Remove(ltasks, t)
          /\ ev' = LObs(t, "sessionError", <<>>, FALSE)
          /\ faults' = faults - 1
    /\ UNCHANGED <<session, roleRec, asPath, pendingNav, user, loading, subscription,
                   tasks, gateDecision, lerror, navs, lloading, variant, edge, zoom>>

\* Login.checkDeveloperRole: the role lookup returns (or throws); a run of
\* handleSignIn that ends here goes through its finally.
LRoleDone(t) ==
    /\ t.pc = "role"
    /\ \/ \E res \in RoleAnswers \cup
                     (IF faults > 0 THEN {[data |-> "none", error |-> TRUE]} ELSE {}) :
          /\ faults' = faults - (IF res \in RoleAnswers THEN 0 ELSE 1)
          /\ IF res.error
             THEN /\ lerror' = SetError(t, "Unable to verify access permissions")
                  /\ ltasks' = Remove(ltasks, t)
                  /\ lloading' = Finally(t)
                  /\ ev' = LObs(t, AnswerKind(res), <<>>, FALSE)
                  /\ UNCHANGED pendingNav
             ELSE IF LoginPolicy(variant, res.data)
             THEN /\ pendingNav' = ForwardTarget(t.redirect)
                  /\ ltasks' = Remove(ltasks, t)
                  /\ lloading' = Finally(t)
                  /\ ev' = LObs(t, AnswerKind(res), <<ForwardTarget(t.redirect)>>, FALSE)
                  /\ UNCHANGED lerror
             ELSE /\ lerror' = SetError(t, "Developer access required for documentation")
                  /\ ltasks' = Add(Remove(ltasks, t),
                                   LRun("signOut", t.by, t.url, t.redirect, t.uid, t.live))
                  /\ ev' = LObs(t, AnswerKind(res), <<>>, FALSE)
                  /\ UNCHANGED <<pendingNav, lloading>>
       \/ /\ faults > 0
          /\ faults' = faults - 1
          /\ lerror' = SetError(t, "Authentication failed")
          /\ ltasks' = Remove(ltasks, t)
          /\ lloading' = Finally(t)
          /\ ev' = LObs(t, "throw", <<>>, FALSE)
          /\ UNCHANGED pendingNav
    /\ UNCHANGED <<session, roleRec, asPath, user, loading, subscription, tasks,
                   gateDecision, navs, variant, edge, zoom>>

\* Login.checkDeveloperRole: await supabase.auth.signOut() returns; the App's live
\* subscription, if any, is notified.
LSignOutDone(t) ==
    /\ t.pc = "signOut"
    /\ session' = SignedOut(session)
    /\ user' = CallbackUser
    /\ pendingNav' = IF CallbackPushes # <<>> THEN CallbackPushes[1] ELSE pendingNav
    /\ ltasks' = Remove(ltasks, t)
    /\ lloading' = Finally(t)
    /\ ev' = LObs(t, "signedOut", <<>>, TRUE)
    /\ UNCHANGED <<roleRec, faults, asPath, loading, subscription, tasks, gateDecision,
                   lerror, navs, variant, edge, zoom>>

\* The viewer follows a link to p during the detour.
FlowNavigate(p) ==
    /\ navs > 0
    /\ navs' = navs - 1
    /\ pendingNav' = p
    /\ ev' = Quiet
    /\ UNCHANGED <<session, roleRec, faults, asPath, user, loading, subscription,
                   tasks, gateDecision, lerror, ltasks, lloading, variant, edge, zoom>>

\* The Login instance of a page that was loaded afresh on url a.  Login is statically
\* optimised: at its first render router.query is still empty, and the checkAuth
\* effect (deps []) closes over that render.
Hydrated(a) ==
    IF Pathname(a) = LoginPath
    THEN SetToBag({LRun("getSession", "load", a, <<>>, "null", TRUE)})
    ELSE EmptyBag

\* A page load of a protected path: the middleware answers, the App mounts on the
\* landing url, and so does Login when that is the login page.
FlowLandings ==
    {Middleware(p, c) : p \in {q \in NavPaths : ~Bypass(Pathname(q))}, c \in RequestJars}

FlowInit ==
    /\ session \in {"null", "u1"}
    /\ roleRec \in {"none"} \cup Roles
    /\ faults = MaxFaults
    /\ \E a \in FlowLandings : Loaded(a)
    /\ lerror = ""
    /\ ltasks = Hydrated(asPath)
    /\ navs = MaxNavs
    /\ lloading = FALSE
    /\ variant \in LoginVariants
    /\ edge = NoEdge
    /\ zoom = NoZoom

FlowNext ==
    \/ LoginRouteChange
    \/ \E t \in BagToSet(tasks) : GetSessionDone(t)
    \/ \E t \in BagToSet(tasks) : RoleDone(t)
    \/ \E t \in BagToSet(tasks) : SignOutDone(t)
    \/ \E t \in BagToSet(ltasks) : LGetSessionDone(t)
    \/ \E t \in BagToSet(ltasks) : LRoleDone(t)
    \/ \E t \in BagToSet(ltasks) : LSignOutDone(t)
    \/ \E p \in NavPaths : FlowNavigate(p)

\* Every route change completes and every awaited call returns.
FlowFairness ==
    /\ WF_vars(LoginRouteChange)
    /\ WF_vars(\E t \in BagToSet(tasks) : GetSessionDone(t))
    /\ WF_vars(\E t \in BagToSet(tasks) : RoleDone(t))
    /\ WF_vars(\E t \in BagToSet(tasks) : SignOutDone(t))
    /\ WF_vars(\E t \in BagToSet(ltasks) : LGetSessionDone(t))
    /\ WF_vars(\E t \in BagToSet(ltasks) : LRoleDone(t))
    /\ WF_vars(\E t \in BagToSet(ltasks) : LSignOutDone(t))

FlowSpec == FlowInit /\ [][FlowNext]_vars /\ FlowFairness

-----------------------------------------------------------------------------
(* Login page: the form (handleSignIn) *)

\* The user the typed credentials belong to; "null" when they are wrong.
Credentials == {"u1", "null"}

\* error.message of a sign-in the backend refuses, and of one that does not reach it.
SignInErrors == {"Invalid login credentials", "Email not confirmed"}
FetchError == "Failed to fetch"

\* <Button type="submit" disabled={loading}>: the form can be submitted.
SubmitEnabled_Always(l) == TRUE
SubmitEnabled(l) == ~l

\* The viewer submits the form: setLoading(true), setError(''), and the sign-in
\* request leaves; checkDeveloperRole is the one of the current render.
Submit(cred) ==
    /\ Pathname(asPath) = LoginPath
    /\ SubmitEnabled(lloading)
    /\ BagCardinality(ltasks) < MaxTasks
    /\ lloading' = TRUE
    /\ lerror' = ""
    /\ ltasks' = Add(ltasks, LRun("signIn", "submit", asPath, QueryRedirect(asPath),
                                  cred, TRUE))
    /\ ev' = Obs("form", "none", asPath, "submit", <<>>, FALSE, FALSE)
    /\ UNCHANGED <<session, roleRec, faults, asPath, pendingNav, user, loading,
                   subscription, tasks, gateDecision, navs, variant, edge, zoom>>

\* A sign-in that ends handleSignIn with the message msg: setError, finally.
SignInFails(t, msg, result, fault) ==
    /\ lerror' = SetError(t, msg)
    /\ lloading' = Finally(t)
    /\ ltasks' = Remove(ltasks, t)
    /\ faults' = faults - fault
    /\ ev' = LObs(t, result, <<>>, FALSE)
    /\ UNCHANGED session

\* await supabase.auth.signInWithPassword({email, password}) returns (or throws).  A
\* SIGNED_IN event carries a session: the App's callback does nothing with it.
SignInDone(t) ==
    /\ t.pc = "signIn"
    /\ \/ /\ t.uid # "null"
          /\ session' = t.uid
          /\ ltasks' = Add(Remove(ltasks, t),
                           LRun("role", t.by, t.url, t.redirect, t.uid, t.live))
          /\ ev' = LObs(t, "signedIn", <<>>, FALSE)
          /\ UNCHANGED <<faults, lerror, lloading>>
       \/ /\ t.uid = "null"
          /\ \E msg \in SignInErrors : SignInFails(t, msg, msg, 0)
       \/ /\ faults > 0
          /\ SignInFails(t, FetchError, FetchError, 1)
       \/ /\ faults > 0
          /\ SignInFails(t, "An unexpected error occurred", "throw", 1)
    /\ UNCHANGED <<roleRec, asPath, pendingNav, user, loading, subscription, tasks,
                   gateDecision, navs, variant, edge, zoom>>

\* A page load of any path, the login page with or without a redirect included.  The
\* viewer of this specification follows no links: the route changes are the pushes
\* of the Gate and of the Login page.
FormInit ==
    /\ session \in {"null", "u1"}
    /\ roleRec \in {"none"} \cup Roles
    /\ faults = MaxFaults
    /\ \E a \in Landings : Loaded(a)
    /\ lerror = ""
    /\ ltasks = Hydrated(asPath)
    /\ navs = 0
    /\ lloading = FALSE
    /\ variant \in LoginVariants
    /\ edge = NoEdge
    /\ zoom = NoZoom

FormNext ==
    \/ LoginRouteChange
    \/ \E t \in BagToSet(tasks) : GetSessionDone(t)
    \/ \E t \in BagToSet(tasks) : RoleDone(t)
    \/ \E t \in BagToSet(tasks) : SignOutDone(t)
    \/ \E t \in BagToSet(ltasks) : LGetSessionDone(t)
    \/ \E t \in BagToSet(ltasks) : LRoleDone(t)
    \/ \E t \in BagToSet(ltasks) : LSignOutDone(t)
    \/ \E cred \in Credentials : Submit(cred)
    \/ \E t \in BagToSet(ltasks) : SignInDone(t)

FormSpec == FormInit /\ [][FormNext]_vars

-----------------------------------------------------------------------------
(* Page requests through the edge middleware, and the Gate behind it *)

\* The browser requests url with cookie jar c: the middleware answers and the App
\* mounts on the url of the answer.
Request(url, c) ==
    /\ edge' = Edge(edge.filter, c, url)
    /\ Mount(Answer(edge.filter, url, c))
    /\ UNCHANGED <<session, roleRec, faults, loginVars, zoom>>

EdgeInit ==
    /\ session \in {"null", "u1"}
    /\ roleRec \in {"none"} \cup Roles
    /\ faults = MaxFaults
    /\ \E f \in Filters, c \in CookieJars, p \in NavPaths :
          /\ edge = Edge(f, c, p)
          /\ Loaded(Answer(f, p, c))
    /\ lerror = ""
    /\ ltasks = EmptyBag
    /\ navs = 0
    /\ lloading = FALSE
    /\ variant = "developer"
    /\ zoom = NoZoom

EdgeNext ==
    \/ \E p \in NavPaths, c \in CookieJars : Request(p, c)
    \/ RouteChange
    \/ \E t \in BagToSet(tasks) : GetSessionDone(t)
    \/ \E t \in BagToSet(tasks) : RoleDone(t)
    \/ \E t \in BagToSet(tasks) : SignOutDone(t)

EdgeSpec == EdgeInit /\ [][EdgeNext]_vars

-----------------------------------------------------------------------------
(* The auth-check endpoint (api/auth-check.js) *)

Methods == {"GET", "POST", "OPTIONS"}
BearerPrefix == <<"B", "e", "a", "r", "e", "r", " ">>

\* Authorization headers of the requests: none, a token of user u1, an unknown
\* token, an empty token, and two headers that are not 'Bearer ' ones.
Headers ==
    {<<>>,
     BearerPrefix \o <<"t", "1">>,
     BearerPrefix \o <<"x">>,
     BearerPrefix,
     <<"b", "e", "a", "r", "e", "r", " ", "t", "1">>,
     <<"B", "a", "s", "i", "c", " ", "t", "1">>}

\* authHeader.replace('Bearer ', '') on a header that starts with 'Bearer ': the
\* first occurrence is the prefix.
TokenOf(h) == SubSeq(h, Len(BearerPrefix) + 1, Len(h))

\* supabaseClient.auth.getUser(token): the user of the token, "null" with an error.
getUser(token) == IF token = <<"t", "1">> THEN "u1" ELSE "null"

\* roleData.role === 'developer' || roleData.role === 'admin'
isDeveloper_Any(role) == TRUE
isDeveloper(role) == role = "developer" \/ role = "admin"

\* res.status(..).json({authenticated, isDeveloper, ..}); json is FALSE for the
\* body-less answer to OPTIONS.
Json(status, authenticated, dev) ==
    [status |-> status, json |-> TRUE, authenticated |-> authenticated,
     isDeveloper |-> dev]
NoBody == [status |-> 200, json |-> FALSE, authenticated |-> FALSE, isDeveloper |-> FALSE]

ApiCall(m, h, res) == [filter |-> "authCheck", method |-> m, header |-> h, res |-> res]

\* handler(req, res) for a request with method m and Authorization header h.
handler(m, h) ==
    /\ \/ /\ m = "OPTIONS"
          /\ edge' = ApiCall(m, h, NoBody)
          /\ UNCHANGED faults
       \/ /\ m # "OPTIONS"
          /\ h = <<>> \/ ~startsWith(h, BearerPrefix)
          /\ edge' = ApiCall(m, h, Json(401, FALSE, FALSE))
          /\ UNCHANGED faults
       \/ /\ m # "OPTIONS"
          /\ h # <<>> /\ startsWith(h, BearerPrefix)
          /\ \/ /\ getUser(TokenOf(h)) = "null"
                /\ edge' = ApiCall(m, h, Json(401, FALSE, FALSE))
                /\ UNCHANGED faults
             \/ /\ getUser(TokenOf(h)) # "null"
                /\ \E a \in RoleAnswers :
                      edge' = ApiCall(m, h,
                                 IF a.error THEN Json(200, TRUE, FALSE)
                                 ELSE IF a.data = "none" THEN Json(500, FALSE, FALSE)
                                 ELSE Json(200, TRUE, isDeveloper(a.data)))
                /\ UNCHANGED faults
             \/ /\ faults > 0
                /\ edge' = ApiCall(m, h, Json(500, FALSE, FALSE))
                /\ faults' = faults - 1
    /\ UNCHANGED <<session, roleRec, asPath, pendingNav, user, loading, subscription,
                   tasks, gateDecision, ev, loginVars, zoom>>

ApiInit ==
    /\ session = "null"
    /\ roleRec \in {"none"} \cup Roles
    /\ faults = MaxFaults
    /\ Loaded(ApiPath)
    /\ lerror = ""
    /\ ltasks = EmptyBag
    /\ navs = 0
    /\ lloading = FALSE
    /\ variant = "developer"
    /\ edge = NoEdge
    /\ zoom = NoZoom

ApiNext == \E m \in Methods, h \in Headers : handler(m, h)

ApiSpec == ApiInit /\ [][ApiNext]_vars

-----------------------------------------------------------------------------
(* Properties of the Gate *)

\* The login urls the specification's scenarios expect, written out.
ExpectedRefSchemaLogin ==
    <<"/", "l", "o", "g", "i", "n", "?", "r", "e", "d", "i", "r", "e", "c", "t", "=",
      "%", "2", "F", "r", "e", "f", "e", "r", "e", "n", "c", "e",
      "%", "2", "F", "s", "c", "h", "e", "m", "a">>
ExpectedDocsQueryLogin ==
    <<"/", "l", "o", "g", "i", "n", "?", "r", "e", "d", "i", "r", "e", "c", "t", "=",
      "%", "2", "F", "d", "%", "3", "F", "q", "%", "3", "D", "1">>
ExpectedRootLogin ==
    <<"/", "l", "o", "g", "i", "n", "?", "r", "e", "d", "i", "r", "e", "c", "t", "=",
      "%", "2", "F">>
ExpectedDocsLogin ==
    <<"/", "l", "o", "g", "i", "n", "?", "r", "e", "d", "i", "r", "e", "c", "t", "=",
      "%", "2", "F", "d">>
ExpectedLogin(path) ==
    CASE path = RefSchemaPath -> ExpectedRefSchemaLogin
      [] path = DocsQueryPath -> ExpectedDocsQueryLogin
      [] path = RootPath -> ExpectedRootLogin
      [] path = <<"/", "d">> -> ExpectedDocsLogin
      [] OTHER -> <<>>

Protected(pathname) == pathname # LoginPath /\ ~startsWith(pathname, ApiPrefix)
Denials == {"DENY_NO_SESSION", "DENY_ERROR", "DENY_WRONG_ROLE"}
GateOps == {"getSession", "role", "checkAuth"}

\* C1: a run of checkAuth that finds no Session (getSession gives null or a session
\* error) ends in DENY_NO_SESSION, pushes exactly the login url whose redirect
\* parameter is the URL-encoded path of its navigation, and leaves user untouched.
C1_NoSessionRedirects ==
    [][(ev'.op \in GateOps /\ ev'.result \in {"nosession", "sessionError"}) =>
          /\ ev'.decision = "DENY_NO_SESSION"
          /\ Protected(Pathname(ev'.asPath))
          /\ ev'.pushed = <<ExpectedLogin(ev'.asPath)>>
          /\ pendingNav' = ExpectedLogin(ev'.asPath)
          /\ ~ev'.setUser
          /\ user' = user]_vars

C1_Witness ==
    /\ ev.result = "nosession"
    /\ ev.asPath = RefSchemaPath
    /\ pendingNav = ExpectedRefSchemaLogin
    /\ user = NoUser

C3_ContentOnlyAfterAllow ==
    /\ (Protected(Pathname(asPath)) /\ Rendered = "component") => gateDecision = "ALLOW"
    /\ ev.decision \in Denials => (user = NoUser /\ pendingNav # <<>>)

\* C4: on a protected path the page Component is not rendered while an evaluation
\* for the current navigation is in flight.
C4_NoContentDuringEvaluation ==
    (Protected(Pathname(asPath)) /\ \E t \in BagToSet(tasks) : t.asPath = asPath)
        => Rendered = "spinner"

\* C5: a run of checkAuth that completes after the viewer has moved to another
\* path issues no redirect, no sign-out and no user update.
C5_StaleResultDiscarded ==
    (ev.op = "checkAuth" /\ ev.asPath # asPath)
        => (ev.pushed = <<>> /\ ~ev.signOut /\ ~ev.setUser)

\* The system rests: nothing is in flight and no redirect is pending, and the
\* viewer looks at the login form or at a rendered page.
Rests ==
    /\ pendingNav = <<>>
    /\ tasks = EmptyBag
    /\ ltasks = EmptyBag
    /\ Pathname(asPath) = LoginPath \/ Rendered = "component"

C7_BypassedPathsSkipTheGate ==
    [][(/\ ev'.op \in {"load", "effect"}
        /\ \/ Pathname(asPath') = LoginPath
           \/ startsWith(Pathname(asPath'), ApiPrefix)) =>
          /\ ev'.result = "bypass"
          /\ tasks' = IF ev'.op = "load" THEN EmptyBag ELSE tasks
          /\ \A t \in BagToSet(tasks') : t.asPath # asPath'
          /\ subscription' = <<>>
          /\ pendingNav' = <<>>
          /\ session' = session
          /\ loading' = FALSE
          /\ Rendered' = "component"]_vars

C7_Witness ==
    /\ ev.op = "effect"
    /\ Pathname(asPath) = LoginPath
    /\ QueryRedirect(asPath) = RefSchemaPath
    /\ ~loading
    /\ tasks = EmptyBag

\* C8: a run of checkAuth in which an exception is thrown ends in a DENY: a login
\* url is pushed, user is not set, and the protected content is not revealed.
C8_ExceptionsFailClosed ==
    (ev.op \in GateOps /\ ev.result = "throw") =>
        /\ ev.decision \in Denials
        /\ ev.pushed # <<>>
        /\ ~ev.setUser
        /\ ~(Protected(Pathname(asPath)) /\ Rendered = "component")

\* C9: with a Session present, a role lookup that answers an error and one that
\* answers no record both end the run in DENY_ERROR: the login url carrying the
\* path of the navigation is pushed, user and Session are left untouched.
C9_LookupFailureDenies ==
    [][(ev'.op \in GateOps /\ ev'.result \in {"roleError", "noRecord"}) =>
          /\ ev'.decision = "DENY_ERROR"
          /\ gateDecision' = "DENY_ERROR"
          /\ ev'.pushed = <<ExpectedLogin(ev'.asPath)>>
          /\ pendingNav' = ExpectedLogin(ev'.asPath)
          /\ ~ev'.setUser
          /\ user' = user
          /\ session' = session]_vars

C9_Witness ==
    /\ ev.result = "noRecord"
    /\ ev.decision = "DENY_ERROR"
    /\ session = "u1"
    /\ ev.asPath = DocsQueryPath
    /\ pendingNav = ExpectedDocsQueryLogin

\* C10: a step of checkAuth changes the Session only when it ends the run in
\* DENY_WRONG_ROLE; a run that ends in DENY_NO_SESSION, DENY_ERROR or ALLOW leaves
\* the Session as it was.
C10_SignOutOnlyOnWrongRole ==
    [][ev'.op \in GateOps =>
          /\ session' # session => ev'.decision = "DENY_WRONG_ROLE"
          /\ ev'.signOut => ev'.decision = "DENY_WRONG_ROLE"
          /\ ev'.decision \in {"DENY_NO_SESSION", "DENY_ERROR", "ALLOW"} =>
                session' = session]_vars

C10_Witness ==
    /\ ev.decision = "DENY_ERROR"
    /\ ev.result = "roleError"
    /\ session = "u1"
    /\ roleRec = "developer"

\* C27: the Gate evaluates once per navigation: the effect of a route change to a
\* protected path starts exactly one run of checkAuth, no other step starts one, and
\* a run that ends in a DENY issues exactly one router.push of the login url, also
\* when its sign-out notified the onAuthStateChange callback.
C27_OncePerNavigation ==
    [][/\ (ev'.op = "effect" /\ Protected(Pathname(asPath'))) =>
             BagCardinality(tasks') = BagCardinality(tasks) + 1
       /\ ev'.op \notin {"load", "effect"} =>
             BagCardinality(tasks') <= BagCardinality(tasks)
       /\ (ev'.op = "checkAuth" /\ ev'.decision \in Denials) =>
             Len(ev'.pushed) = 1]_vars

\* C28: on a protected path the subscription is the one of the current route; a
\* SIGNED_OUT event sets the user to null and pushes the login url with the current
\* path as Redirect Intent; where the effect was bypassed (the login path) the event
\* pushes nothing and leaves the user alone.
C28_SignedOutRedirects ==
    [][/\ Protected(Pathname(asPath')) => subscription' = asPath'
       /\ ~Protected(Pathname(asPath')) => subscription' = <<>>
       /\ (ev'.op = "onAuthStateChange" /\ Protected(Pathname(asPath))) =>
             /\ session' = "null"
             /\ user' = NoUser
             /\ ev'.pushed = <<ExpectedLogin(asPath)>>
             /\ pendingNav' = ExpectedLogin(asPath)
       /\ (ev'.op = "onAuthStateChange" /\ ~Protected(Pathname(asPath))) =>
             /\ ev'.pushed = <<>>
             /\ pendingNav' = pendingNav
             /\ user' = user
       /\ (ev'.signOut /\ ev'.op = "checkAuth" /\ Protected(Pathname(asPath))) =>
             /\ user' = NoUser
             /\ ev'.pushed[1] = ExpectedLogin(asPath)]_vars

\* The session of an allowed developer ends while the viewer reads a protected page.
C28_Witness ==
    /\ ev.op = "onAuthStateChange"
    /\ gateDecision = "ALLOW"
    /\ asPath = DocsQueryPath
    /\ user = NoUser
    /\ pendingNav = ExpectedDocsQueryLogin

-----------------------------------------------------------------------------
(* Properties of the Login page *)

\* The allowed set of a deployment of the Login page, as the specification names it.
AllowedSet(v) == IF v = "developerOrAdmin" THEN {"developer", "admin"} ELSE {"developer"}

\* The Redirect Intent each login url of the model carries, or the site root.
ExpectedTarget(url) ==
    CASE url = ExpectedRefSchemaLogin -> RefSchemaPath
      [] url = ExpectedDocsQueryLogin -> DocsQueryPath
      [] url = ExpectedRootLogin -> RootPath
      [] url = ExpectedDocsLogin -> <<"/", "d">>
      [] url = LoginPath -> RootPath
      [] OTHER -> <<>>

C12_AllowedRoleForwards ==
    [][(ev'.op = "form" /\ ev'.result \in AllowedSet(variant)) =>
          /\ ExpectedTarget(ev'.asPath) # <<>>
          /\ ev'.pushed = <<ExpectedTarget(ev'.asPath)>>
          /\ pendingNav' = ExpectedTarget(ev'.asPath)
          /\ ~ev'.signOut
          /\ session' = session]_vars

C12_Witness ==
    /\ ev.op = "form"
    /\ ev.result = "developer"
    /\ ev.asPath = ExpectedRefSchemaLogin
    /\ pendingNav = RefSchemaPath
    /\ session = "u1"

C12_WitnessRoot ==
    /\ ev.op = "form"
    /\ ev.result = "developer"
    /\ ev.asPath = LoginPath
    /\ pendingNav = RootPath

\* C13: when signInWithPassword answers an error, the run of handleSignIn ends: the
\* error shown is the backend's message, no role lookup is started, nothing is
\* pushed, the route stays /login and the Session is as it was before the answer.
C13_SignInErrorShown ==
    [][(ev'.op = "form" /\ ev'.result \in SignInErrors \cup {FetchError}) =>
          /\ lerror' = ev'.result
          /\ ~\E t \in BagToSet(ltasks') : t.by = "submit" /\ t.live
          /\ ev'.pushed = <<>>
          /\ pendingNav' = pendingNav
          /\ asPath' = asPath
          /\ Pathname(asPath') = LoginPath
          /\ session' = session
          /\ ~lloading']_vars

C13_Witness ==
    /\ ev.op = "form"
    /\ ev.result = "Invalid login credentials"
    /\ lerror = "Invalid login credentials"
    /\ session = "null"
    /\ Pathname(asPath) = LoginPath
    /\ pendingNav = <<>>

\* The number of runs of handleSignIn of the mounted Login that are in flight.
RECURSIVE Copies(_, _)
Copies(b, ts) ==
    IF ts = {} THEN 0
    ELSE LET t == CHOOSE x \in ts : TRUE IN CopiesIn(t, b) + Copies(b, ts \ {t})
LiveSubmits == Copies(ltasks, {t \in BagToSet(ltasks) : t.by = "submit" /\ t.live})

C15_WitnessForm ==
    /\ ev.op = "form"
    /\ ev.asPath = ExpectedDocsQueryLogin
    /\ pendingNav = DocsQueryPath
    /\ gateDecision = "DENY_NO_SESSION"

-----------------------------------------------------------------------------
(* Properties of the edge middleware *)

\* A session-indicator cookie the filter decides by (sb-access-token or the
\* sb-<ref>-auth-token cookie) is present in the jar, whatever its value.
CookiePresent(c) == c.access \/ c.authToken # "absent"

\* The public prefixes: the login path, and the API routes the filter is not run for.
PublicPrefixes == {LoginPath, <<"/", "a", "p", "i">>}

\* C16: the deployed filter passes a request through if its path starts with a
\* public prefix; otherwise it passes it through exactly when a recognised cookie is
\* present, whatever its value; otherwise it answers the login url whose redirect
\* parameter is the requested path.
C16_EdgeDecidesByPresence ==
    (edge.filter = "supabase" /\ edge.url # <<>>) =>
        IF \/ \E p \in PublicPrefixes : startsWith(Pathname(edge.url), p)
           \/ CookiePresent(edge.jar)
        THEN edge.res = edge.url
        ELSE edge.res = LoginRedirectPrefix \o encodeURIComponent(Pathname(edge.url))

\* C17: with the filter disabled, the page Component of a protected path is rendered
\* only for a viewer the Gate ALLOWs (or one whose request the enabled filter lets
\* through as well).
C17_DisabledFilterShowsNoMore ==
    (/\ edge.filter = "passThrough"
     /\ Protected(Pathname(asPath))
     /\ asPath = edge.res
     /\ Rendered = "component") =>
        \/ gateDecision = "ALLOW"
        \/ Middleware(edge.url, edge.jar) = edge.url

-----------------------------------------------------------------------------
(* Properties of the role policy *)

\* C18: the Login page and the Gate admit the same roles: whenever the Login page
\* forwards a viewer whose role it resolved, the Gate allows that role.
C18_LoginAndGateAgree ==
    [][(ev'.op \in {"form", "mount", "hydrate"} /\ ev'.pushed # <<>>) =>
          GateAllows(ev'.result)]_vars

\* C19: a component that finds the viewer's role not allowed signs the Session out
\* and shows a message: the Gate when it ends in DENY_WRONG_ROLE, the Login page
\* when its role check signs out.
C19_WrongRoleToldAndSignedOut ==
    /\ ev.decision = "DENY_WRONG_ROLE" => (ev.signOut /\ session = "null" /\ lerror # "")
    /\ (ev.op \in {"form", "mount", "hydrate"} /\ ev.signOut) =>
           (session = "null" /\ lerror # "")

-----------------------------------------------------------------------------
(* Properties of the auth-check endpoint *)

\* C30: the endpoint answers isDeveloper = true only to a request whose header is
\* 'Bearer ' followed by a token that resolves to a user whose role record is
\* developer or admin; every other request that is not OPTIONS gets a JSON answer
\* with isDeveloper = false; authenticated = true only when the token resolved.
C30_AuthCheckAnswers ==
    edge.filter = "authCheck" =>
        LET resolved == /\ startsWith(edge.header, BearerPrefix)
                        /\ SubSeq(edge.header, 8, Len(edge.header)) = <<"t", "1">>
        IN  /\ edge.res.isDeveloper =>
                 (edge.method # "OPTIONS" /\ resolved /\ roleRec \in {"developer", "admin"})
            /\ edge.res.authenticated => (edge.method # "OPTIONS" /\ resolved)
            /\ edge.method # "OPTIONS" => edge.res.json
            /\ (edge.method # "OPTIONS" /\ ~(resolved /\ roleRec \in {"developer", "admin"}))
                 => (edge.res.json /\ ~edge.res.isDeveloper)
            /\ edge.res.status = 200 \/ ~edge.res.authenticated

\* An admin's token is answered with isDeveloper = true.
C30_Witness ==
    /\ edge.filter = "authCheck"
    /\ edge.method = "POST"
    /\ roleRec = "admin"
    /\ edge.res.isDeveloper
    /\ edge.res.authenticated
    /\ edge.res.status = 200

-----------------------------------------------------------------------------
(* Diagram zoom widget: the enhanced script (Nextra) and public/mermaid-zoom.js *)

MaxDiagrams == 2
MaxRescans == 1
MaxGestures == 7
MaxZooms == 1
MaxPan == 1
maxAttempts == 20
maxIntervalScans == 15

\* Scales are counted in thousandths: `let scale = 1`, and the limits 0.5 and 5 of
\* Math.min(Math.max(.., 0.5), 5).  Products are rounded down to a thousandth.
Unit == 1000
MinScale == 500
MaxScale == 5000

Diagrams == 1..MaxDiagrams
Scripts == {"enhanced", "simple"}
ZoomPaths == {RootPath, RefSchemaPath}

\* A diagram root node that is not (or no longer) known to the page: a div with
\* k svg children carrying aria-roledescription (a .mermaid element for the simple
\* script), outside the document, never initialized; the closure variables of its
\* handlers have the values initializeDiagram gives them.
FreshNode(k) ==
    [svgs |-> k, inDoc |-> FALSE, marked |-> FALSE, wrapped |-> FALSE,
     listeners |-> 0, docListeners |-> 0,
     scale |-> Unit, translateX |-> 0, translateY |-> 0,
     isDragging |-> FALSE, start |-> <<0, 0>>]

\* The svgs the diagram in slot n holds: slot 1 one, the other slots two.
SvgsOf(n) == IF n = 1 THEN 1 ELSE 2

\* The modal before createZoomModal(): `let modal = null`, nothing in the document.
NoModal ==
    [ref |-> FALSE, overlays |-> 0, active |-> FALSE, content |-> 0, title |-> 0,
     currentScale |-> Unit, currentX |-> 0, currentY |-> 0,
     isDragging |-> FALSE, start |-> <<0, 0>>]

\* initializeDiagram(container) of the enhanced script on the node in slot n of the
\* widget state z: it is called for the parent of an svg, so the svg is found.
initializeDiagram_NoGuard(z, n) ==
    [z EXCEPT !.nodes[n].marked = TRUE,
              !.nodes[n].listeners = @ + 1,
              !.nodes[n].docListeners = @ + 1]
initializeDiagram(z, n) ==
    IF z.nodes[n].marked THEN z
    ELSE IF ~z.nodes[n].inDoc THEN z
    ELSE [z EXCEPT !.nodes[n].marked = TRUE,
                   !.nodes[n].listeners = @ + 1,
                   !.nodes[n].docListeners = @ + 1]

\* The body of initDiagramZoom's forEach in the simple script: data-zoom-init guards
\* the wrapping of the diagram and the click listener.
initDiagramZoom(z, n) ==
    IF z.nodes[n].marked THEN z
    ELSE [z EXCEPT !.nodes[n].marked = TRUE,
                   !.nodes[n].wrapped = TRUE,
                   !.nodes[n].listeners = @ + 1]

\* initializeDiagram called k times in a row on slot n (once per svg of the node).
RECURSIVE InitTimes(_, _, _)
InitTimes(z, n, k) == IF k = 0 THEN z ELSE InitTimes(initializeDiagram(z, n), n, k - 1)

\* scanForDiagrams(): every svg[aria-roledescription] of the document, its parent
\* initialized (the simple script: every .mermaid element); slots from n upwards.
RECURSIVE ScanFrom(_, _)
ScanFrom(z, n) ==
    IF n > MaxDiagrams THEN z
    ELSE IF ~z.nodes[n].inDoc THEN ScanFrom(z, n + 1)
    ELSE IF z.script = "enhanced"
         THEN ScanFrom(InitTimes(z, n, z.nodes[n].svgs), n + 1)
         ELSE ScanFrom(initDiagramZoom(z, n), n + 1)
scanForDiagrams(z) == ScanFrom(z, 1)

\* diagrams.length: the svgs found by a scan.
RECURSIVE FoundFrom(_, _)
FoundFrom(z, n) ==
    IF n > MaxDiagrams THEN 0
    ELSE (IF z.nodes[n].inDoc THEN z.nodes[n].svgs ELSE 0) + FoundFrom(z, n + 1)
Found(z) == FoundFrom(z, 1)

\* startIntervalScanning(): clear the interval of the handle, reset the counters,
\* start an interval and keep its handle.  timers counts the live interval timers.
startIntervalScanning_NoClear(z) ==
    [z EXCEPT !.timers = @ + 1,
              !.scanInterval = TRUE,
              !.intervalScans = 0,
              !.lastFoundCount = 0]
startIntervalScanning(z) ==
    [z EXCEPT !.timers = (IF z.scanInterval THEN @ - 1 ELSE @) + 1,
              !.scanInterval = TRUE,
              !.intervalScans = 0,
              !.lastFoundCount = 0]

\* The widget whose script has not run its start-up code yet.
Loading(sc, nodes, path) ==
    [on |-> TRUE, script |-> sc, nodes |-> nodes,
     retryTimer |-> sc = "enhanced", initAttempts |-> 0,
     rescans |-> IF sc = "simple" THEN 1 ELSE 0,
     scanInterval |-> FALSE, timers |-> 0, intervalScans |-> 0, lastFoundCount |-> 0,
     pathname |-> path, lastPathname |-> path,
     modal |-> NoModal, bodyLocked |-> FALSE, gestures |-> 0]

\* The widget after its script ran in a document: a first scan is scheduled
\* (setTimeout(attemptInit, 100), or initDiagramZoom itself), the enhanced script
\* has started interval scanning and the navigation watcher.
Started(sc, nodes, path) ==
    IF sc = "enhanced" THEN startIntervalScanning(Loading(sc, nodes, path))
    ELSE Loading(sc, nodes, path)

\* The variables of the pages: the widget reads and writes none of them.
pageVars ==
    <<session, roleRec, faults, asPath, pendingNav, user, loading, subscription, tasks,
      gateDecision, ev, loginVars, edge>>

\* The page puts a diagram into the document, inside the content it inserts: the
\* node that was in slot n before ("same"), a new one with its svgs ("fresh"), or a
\* new one that mermaid has not rendered yet ("empty").  The MutationObserver of the
\* enhanced script schedules a scan (two animation frames) when the inserted content
\* holds an svg[aria-roledescription], the one of the simple script (a 100 ms timer)
\* when it holds a .mermaid element.
Inserted(n, kind) ==
    CASE kind = "same" -> zoom.nodes[n]
      [] kind = "fresh" -> FreshNode(SvgsOf(n))
      [] OTHER -> FreshNode(0)
Observed(nd) == zoom.script = "simple" \/ nd.svgs > 0

AddDiagram(n, kind) ==
    /\ ~zoom.nodes[n].inDoc
    /\ Observed(Inserted(n, kind)) => zoom.rescans < MaxRescans
    /\ zoom' = [zoom EXCEPT
                  !.nodes[n] = [Inserted(n, kind) EXCEPT !.inDoc = TRUE],
                  !.rescans = IF Observed(Inserted(n, kind)) THEN @ + 1 ELSE @]
    /\ UNCHANGED pageVars

\* mermaid renders into a container that is in the document: the svg elements are
\* the added nodes.  Neither observer schedules a scan: the tagName of an svg element
\* is 'svg', not 'SVG', it contains no further svg[aria-roledescription] and no
\* .mermaid element, and the classList branch is the else of a test that every
\* element passes.
RenderSvg(n) ==
    /\ zoom.nodes[n].inDoc
    /\ zoom.nodes[n].svgs = 0
    /\ zoom' = [zoom EXCEPT !.nodes[n].svgs = SvgsOf(n)]
    /\ UNCHANGED pageVars

\* The page takes a diagram out of the document (removed nodes schedule nothing).
RemoveDiagram(n) ==
    /\ zoom.nodes[n].inDoc
    /\ zoom' = [zoom EXCEPT !.nodes[n].inDoc = FALSE]
    /\ UNCHANGED pageVars

\* attemptInit(): scan; without a diagram count the attempt and retry in 500 ms
\* while fewer than maxAttempts were made.
attemptInit(z) ==
    IF Found(z) > 0
    THEN [scanForDiagrams(z) EXCEPT !.retryTimer = FALSE]
    ELSE [scanForDiagrams(z) EXCEPT
            !.initAttempts = @ + 1,
            !.retryTimer = z.initAttempts + 1 < maxAttempts]

\* The timer of attemptInit fires.
AttemptInit ==
    /\ zoom.retryTimer
    /\ zoom' = attemptInit(zoom)
    /\ UNCHANGED pageVars

\* A scan scheduled by the MutationObserver runs.  The simple script wraps the
\* diagrams it initializes, and the observer sees the wrapper it inserted.
rescan(z) ==
    [scanForDiagrams(z) EXCEPT
        !.rescans = IF /\ z.script = "simple"
                       /\ \E n \in Diagrams : z.nodes[n].inDoc /\ ~z.nodes[n].marked
                    THEN @ ELSE @ - 1]

Rescan ==
    /\ zoom.rescans > 0
    /\ zoom' = rescan(zoom)
    /\ UNCHANGED pageVars

\* A tick of a scanning interval: count it, scan, and clear the interval of the
\* handle after maxIntervalScans ticks or when a non-zero count repeats.
IntervalStops(z) ==
    \/ z.intervalScans + 1 >= maxIntervalScans
    \/ /\ Found(z) > 0
       /\ Found(z) = z.lastFoundCount
       /\ z.intervalScans + 1 > 1

intervalTick(z) ==
    [scanForDiagrams(z) EXCEPT
        !.intervalScans = @ + 1,
        !.timers = IF IntervalStops(z) /\ z.scanInterval THEN @ - 1 ELSE @,
        !.scanInterval = IF IntervalStops(z) THEN FALSE ELSE @,
        !.lastFoundCount = Found(z)]

IntervalScan ==
    /\ zoom.timers > 0
    /\ zoom' = intervalTick(zoom)
    /\ UNCHANGED pageVars

\* The site navigates: window.location.pathname changes.
PathChange(p) ==
    /\ p # zoom.pathname
    /\ zoom' = [zoom EXCEPT !.pathname = p]
    /\ UNCHANGED pageVars

\* A tick of navigationWatcher that sees another pathname.
NavigationWatcher ==
    /\ zoom.script = "enhanced"
    /\ zoom.pathname # zoom.lastPathname
    /\ zoom' = startIntervalScanning([zoom EXCEPT !.lastPathname = zoom.pathname])
    /\ UNCHANGED pageVars

\* mouseMoveHandler / mouseUpHandler of a node, on a document event while the
\* container is outside the document: both handlers remove themselves.
Cleaned(nd) == IF nd.inDoc \/ nd.docListeners = 0 THEN nd ELSE [nd EXCEPT !.docListeners = 0]

\* A mousemove or mouseup on the document while nothing is dragged: the handlers
\* of diagrams that left the document remove themselves.
DocumentMouse ==
    /\ \E n \in Diagrams : zoom.nodes[n].docListeners > 0 /\ ~zoom.nodes[n].inDoc
    /\ zoom' = [zoom EXCEPT !.nodes = [n \in Diagrams |-> Cleaned(zoom.nodes[n])]]
    /\ UNCHANGED pageVars

\* The script starts in a document that holds any of the diagrams already; the
\* pages' variables rest on a page the Gate does not evaluate.
ZoomInit ==
    /\ session = "null"
    /\ roleRec = "none"
    /\ faults = 0
    /\ Loaded(ApiPath)
    /\ lerror = ""
    /\ ltasks = EmptyBag
    /\ navs = 0
    /\ lloading = FALSE
    /\ variant = "developer"
    /\ edge = NoEdge
    /\ \E sc \in Scripts, present \in SUBSET Diagrams :
          zoom = Started(sc,
                         [n \in Diagrams |->
                            [FreshNode(SvgsOf(n)) EXCEPT !.inDoc = n \in present]],
                         RootPath)

ZoomNext ==
    \/ \E n \in Diagrams, kind \in {"same", "fresh", "empty"} : AddDiagram(n, kind)
    \/ \E n \in Diagrams : RenderSvg(n)
    \/ \E n \in Diagrams : RemoveDiagram(n)
    \/ AttemptInit
    \/ Rescan
    \/ IntervalScan
    \/ \E p \in ZoomPaths : PathChange(p)
    \/ NavigationWatcher
    \/ DocumentMouse

ZoomSpec == ZoomInit /\ [][ZoomNext]_vars

-----------------------------------------------------------------------------
(* Zoom widget: the modal, zoom and pan *)

Min(a, b) == IF a < b THEN a ELSE b
Max(a, b) == IF a > b THEN a ELSE b

\* Positions of the pointer (clientX, clientY) and wheel movements (deltaY).
Points == {<<0, 0>>, <<1, 0>>, <<0, 1>>}
DeltaYs == {120, 0 - 120, 0}

\* Math.min(Math.max(s, 0.5), 5)
Clamp_None(s) == s
Clamp(s) == Min(Max(s, MinScale), MaxScale)

\* e.deltaY > 0 ? 0.9 : 1.1, in tenths.
Delta(deltaY) == IF deltaY > 0 THEN 9 ELSE 11

\* scale * delta, clamped.
Wheeled(s, deltaY) == Clamp((s * Delta(deltaY)) \div 10)

\* createZoomModal(): `if (modal) return modal`, else a new overlay is appended to
\* the body and kept in `modal`.
createZoomModal_NoGuard(z) ==
    [z EXCEPT !.modal.ref = TRUE, !.modal.overlays = @ + 1]
createZoomModal(z) ==
    IF z.modal.ref THEN z
    ELSE [z EXCEPT !.modal.ref = TRUE, !.modal.overlays = @ + 1]

\* modal.resetTransform(), which only the enhanced script defines.
resetTransform(z) ==
    IF z.script = "enhanced"
    THEN [z EXCEPT !.modal.currentScale = Unit, !.modal.currentX = 0, !.modal.currentY = 0]
    ELSE z

\* openModal(diagramElement, title) for the diagram in slot n: `if (!modal)
\* createZoomModal()`, then title and a copy of the markup go into the overlay,
\* which becomes active; the body scroll is locked.
openModal_NewOverlay(z, n) ==
    [resetTransform(createZoomModal_NoGuard(z)) EXCEPT
        !.modal.title = n,
        !.modal.content = n,
        !.modal.active = TRUE,
        !.bodyLocked = TRUE]
openModal(z, n) ==
    [resetTransform(IF z.modal.ref THEN z ELSE createZoomModal(z)) EXCEPT
        !.modal.title = n,
        !.modal.content = n,
        !.modal.active = TRUE,
        !.bodyLocked = TRUE]

\* closeModal()
closeModal_KeepsLock(z) ==
    IF z.modal.ref THEN [z EXCEPT !.modal.active = FALSE] ELSE z
closeModal(z) ==
    IF z.modal.ref THEN [z EXCEPT !.modal.active = FALSE, !.bodyLocked = FALSE] ELSE z

\* clickHandler of initializeDiagram; the listener of the simple script opens the
\* modal on every click.
clickHandler_Always(z, n) == openModal(z, n)
clickHandler(z, n) ==
    IF /\ z.script = "enhanced"
       /\ \/ z.nodes[n].scale # Unit
          \/ z.nodes[n].translateX # 0
          \/ z.nodes[n].translateY # 0
    THEN z
    ELSE openModal(z, n)

\* A node that receives the events of the pointer: initialized and in the document.
Live(n) == zoom.nodes[n].inDoc /\ zoom.nodes[n].listeners > 0
Zoomable(n) == Live(n) /\ zoom.script = "enhanced"

\* Something is being dragged: one pointer, one button.
Dragging ==
    \/ zoom.modal.isDragging
    \/ \E n \in Diagrams : zoom.nodes[n].isDragging

\* A click on the diagram in slot n.
Click(n) ==
    /\ Live(n)
    /\ zoom' = clickHandler(zoom, n)
    /\ UNCHANGED pageVars

\* wheelHandler: a wheel event on the diagram in slot n.
Wheel(n, deltaY) ==
    /\ Zoomable(n)
    /\ zoom.gestures < MaxGestures
    /\ zoom' = [zoom EXCEPT !.nodes[n].scale = Wheeled(@, deltaY),
                            !.gestures = @ + 1]
    /\ UNCHANGED pageVars

\* dblClickHandler: reset.
DblClick(n) ==
    /\ Zoomable(n)
    /\ zoom' = [zoom EXCEPT !.nodes[n].scale = Unit,
                            !.nodes[n].translateX = 0,
                            !.nodes[n].translateY = 0]
    /\ UNCHANGED pageVars

\* mouseDownHandler: the left button goes down on the diagram in slot n at p.
MouseDown(n, p) ==
    /\ Zoomable(n)
    /\ ~Dragging
    /\ zoom' = [zoom EXCEPT
                  !.nodes[n].isDragging = TRUE,
                  !.nodes[n].start = <<p[1] - zoom.nodes[n].translateX,
                                       p[2] - zoom.nodes[n].translateY>>]
    /\ UNCHANGED pageVars

\* The mousedown listener of the modal's diagram element.
ModalMouseDown(p) ==
    /\ zoom.script = "enhanced"
    /\ zoom.modal.active
    /\ ~Dragging
    /\ zoom' = [zoom EXCEPT
                  !.modal.isDragging = TRUE,
                  !.modal.start = <<p[1] - zoom.modal.currentX,
                                    p[2] - zoom.modal.currentY>>]
    /\ UNCHANGED pageVars

\* mouseMoveHandler of a node for the pointer at p.
Moved(nd, p) ==
    IF nd.docListeners = 0 THEN nd
    ELSE IF ~nd.inDoc THEN Cleaned(nd)
    ELSE IF ~nd.isDragging THEN nd
    ELSE [nd EXCEPT !.translateX = p[1] - nd.start[1],
                    !.translateY = p[2] - nd.start[2]]

\* The mousemove listener the modal put on the document.
ModalMoved(md, p) ==
    IF ~md.isDragging THEN md
    ELSE [md EXCEPT !.currentX = p[1] - md.start[1],
                    !.currentY = p[2] - md.start[2]]

Within(x) == 0 - MaxPan <= x /\ x <= MaxPan

\* A mousemove on the document during a drag, pointer at p.
MouseMove(p) ==
    /\ Dragging
    /\ \A n \in Diagrams : /\ Within(Moved(zoom.nodes[n], p).translateX)
                           /\ Within(Moved(zoom.nodes[n], p).translateY)
    /\ Within(ModalMoved(zoom.modal, p).currentX)
    /\ Within(ModalMoved(zoom.modal, p).currentY)
    /\ zoom' = [zoom EXCEPT
                  !.nodes = [n \in Diagrams |-> Moved(zoom.nodes[n], p)],
                  !.modal = ModalMoved(zoom.modal, p)]
    /\ UNCHANGED pageVars

\* mouseUpHandler of a node; startX and startY are dead until the next mousedown
\* sets them, and are kept at the origin meanwhile.
Released(nd) ==
    IF nd.docListeners = 0 THEN nd
    ELSE IF ~nd.inDoc THEN Cleaned(nd)
    ELSE [nd EXCEPT !.isDragging = FALSE, !.start = <<0, 0>>]

\* The button goes up: the mouseup listeners on the document.
MouseUp ==
    /\ Dragging
    /\ zoom' = [zoom EXCEPT
                  !.nodes = [n \in Diagrams |-> Released(zoom.nodes[n])],
                  !.modal.isDragging = FALSE,
                  !.modal.start = <<0, 0>>]
    /\ UNCHANGED pageVars

\* A click on one of the buttons of the modal (enhanced script).
ZoomActions == {"zoom-in", "zoom-out", "reset"}
Pressed(md, action) ==
    CASE action = "zoom-in" ->
            [md EXCEPT !.currentScale = Min((@ * 13) \div 10, MaxScale)]
      [] action = "zoom-out" ->
            [md EXCEPT !.currentScale = Max((@ * 10) \div 13, MinScale)]
      [] OTHER ->
            [md EXCEPT !.currentScale = Unit, !.currentX = 0, !.currentY = 0]

ZoomButton(action) ==
    /\ zoom.script = "enhanced"
    /\ zoom.modal.active
    /\ action # "reset" => zoom.gestures < MaxGestures
    /\ zoom' = [zoom EXCEPT !.modal = Pressed(@, action),
                            !.gestures = IF action # "reset" THEN @ + 1 ELSE @]
    /\ UNCHANGED pageVars

\* A wheel event on the diagram container of the modal (enhanced script).
ModalWheel(deltaY) ==
    /\ zoom.script = "enhanced"
    /\ zoom.modal.active
    /\ zoom.gestures < MaxGestures
    /\ zoom' = [zoom EXCEPT !.modal.currentScale = Wheeled(@, deltaY),
                            !.gestures = @ + 1]
    /\ UNCHANGED pageVars

\* A click on the close button of the open modal.
CloseButton ==
    /\ zoom.modal.active
    /\ zoom' = closeModal(zoom)
    /\ UNCHANGED pageVars

\* A click on the overlay itself, outside its content.
Backdrop ==
    /\ zoom.modal.active
    /\ zoom' = closeModal(zoom)
    /\ UNCHANGED pageVars

\* The Escape key: the keydown listener exists once the modal was created and
\* closes the modal when it is active.
Escape ==
    /\ zoom' = IF zoom.modal.ref /\ zoom.modal.active THEN closeModal(zoom) ELSE zoom
    /\ UNCHANGED pageVars

\* The widget at rest in a document that shows both diagrams: the first scan found
\* them, the second interval scan found the same count and stopped the interval
\* (enhanced); the first scan and the one its wrappers caused are over (simple).
Settled(sc) ==
    LET z == Started(sc, [n \in Diagrams |-> [FreshNode(SvgsOf(n)) EXCEPT !.inDoc = TRUE]],
                     RootPath)
    IN  IF sc = "enhanced" THEN intervalTick(intervalTick(attemptInit(z)))
        ELSE rescan(rescan(z))

ViewInit ==
    /\ session = "null"
    /\ roleRec = "none"
    /\ faults = 0
    /\ Loaded(ApiPath)
    /\ lerror = ""
    /\ ltasks = EmptyBag
    /\ navs = 0
    /\ lloading = FALSE
    /\ variant = "developer"
    /\ edge = NoEdge
    /\ \E sc \in Scripts : zoom = Settled(sc)

\* A wheel event among the first MaxZooms zoom gestures.
ViewWheel(n, deltaY) ==
    /\ zoom.gestures < MaxZooms
    /\ Wheel(n, deltaY)

\* Clicks, drags of the diagrams and of the modal, and the ways to close the modal.
ViewNext ==
    \/ \E n \in Diagrams : Click(n)
    \/ \E n \in Diagrams, deltaY \in DeltaYs : ViewWheel(n, deltaY)
    \/ \E n \in Diagrams : DblClick(n)
    \/ \E n \in Diagrams, p \in Points : MouseDown(n, p)
    \/ \E p \in Points : ModalMouseDown(p)
    \/ \E p \in Points : MouseMove(p)
    \/ MouseUp
    \/ CloseButton
    \/ Backdrop
    \/ Escape

ViewSpec == ViewInit /\ [][ViewNext]_vars

\* Zoom gestures on the diagrams and in the modal.
ScaleNext ==
    \/ \E n \in Diagrams : Click(n)
    \/ \E n \in Diagrams, deltaY \in DeltaYs : Wheel(n, deltaY)
    \/ \E n \in Diagrams : DblClick(n)
    \/ \E action \in ZoomActions : ZoomButton(action)
    \/ \E deltaY \in DeltaYs : ModalWheel(deltaY)
    \/ CloseButton

ScaleSpec == ViewInit /\ [][ScaleNext]_vars

-----------------------------------------------------------------------------
(* Properties of the zoom widget *)

\* C20: however often the scans (initial retries, scans scheduled by the
\* MutationObserver, interval scans) initialize a diagram node, the node carries one
\* set of listeners: none before its first initialization, exactly one after it.
C20_OneSetOfListeners ==
    \A n \in Diagrams :
        /\ zoom.nodes[n].listeners = (IF zoom.nodes[n].marked THEN 1 ELSE 0)
        /\ zoom.nodes[n].docListeners <= 1

\* A node with two svgs, hence initialized twice by every scan, after interval scans
\* that found it twice in a row.
C20_Witness ==
    /\ zoom.script = "enhanced"
    /\ zoom.nodes[2].inDoc
    /\ zoom.nodes[2].marked
    /\ zoom.nodes[2].listeners = 1
    /\ zoom.intervalScans >= 2
    /\ zoom.lastFoundCount = 2
    /\ ~zoom.scanInterval

\* C21: at most one overlay exists; opening the modal for another diagram while it
\* is open replaces content and title in the same overlay.
C21_OneOverlay ==
    [][/\ zoom'.modal.overlays <= 1
       /\ zoom'.modal.active => zoom'.modal.title = zoom'.modal.content
       /\ \A n \in Diagrams :
             (/\ zoom.modal.active
              /\ zoom.modal.content # n
              /\ zoom'.modal.active
              /\ zoom'.modal.content = n) =>
                /\ zoom'.modal.title = n
                /\ zoom'.modal.overlays = zoom.modal.overlays
                /\ zoom'.modal.overlays = 1]_vars

\* The modal shows the second diagram while the first one is being dragged.
C21_Witness ==
    /\ zoom.modal.active
    /\ zoom.modal.content = 2
    /\ zoom.modal.overlays = 1
    /\ zoom.nodes[1].isDragging

\* C22: the body scroll is locked exactly while the modal is active; the close
\* button, the backdrop and Escape close an open modal and unlock the scroll;
\* Escape with the modal closed changes nothing.
C22_ScrollLockedIffOpen ==
    [][/\ zoom'.bodyLocked <=> zoom'.modal.active
       /\ (zoom.modal.active /\ (CloseButton \/ Backdrop \/ Escape)) =>
             (~zoom'.modal.active /\ ~zoom'.bodyLocked)
       /\ (~zoom.modal.active /\ Escape) => zoom' = zoom]_vars

\* The modal was created, and is closed again with the scroll unlocked.
C22_Witness ==
    /\ zoom.modal.ref
    /\ ~zoom.modal.active
    /\ ~zoom.bodyLocked
    /\ zoom.modal.content = 1

\* C23: a wheel event multiplies the scale by 0.9 for deltaY > 0 and by 1.1
\* otherwise and clamps it to [0.5, 5]; scale 1 with deltaY = 120 gives 0.9; the
\* scales of the diagrams and of the modal stay within [0.5, 5].
InRange(s) == 500 <= s /\ s <= 5000
Down(s) == IF (s * 9) \div 10 < 500 THEN 500 ELSE (s * 9) \div 10
Up(s) == IF (s * 11) \div 10 > 5000 THEN 5000 ELSE (s * 11) \div 10

C23_ScaleClamped ==
    [][/\ \A n \in Diagrams :
             /\ InRange(zoom'.nodes[n].scale)
             /\ \A deltaY \in DeltaYs :
                   Wheel(n, deltaY) =>
                      zoom'.nodes[n].scale = IF deltaY > 0 THEN Down(zoom.nodes[n].scale)
                                             ELSE Up(zoom.nodes[n].scale)
             /\ (Wheel(n, 120) /\ zoom.nodes[n].scale = 1000) =>
                   zoom'.nodes[n].scale = 900
       /\ InRange(zoom'.modal.currentScale)
       /\ \A deltaY \in DeltaYs :
             ModalWheel(deltaY) =>
                zoom'.modal.currentScale = IF deltaY > 0 THEN Down(zoom.modal.currentScale)
                                           ELSE Up(zoom.modal.currentScale)]_vars

\* The seventh wheel-down in a row reaches the lower limit.
C23_Witness ==
    /\ zoom.nodes[1].scale = 500
    /\ zoom.gestures = 7

\* The seventh zoom-in in a row reaches the upper limit in the modal.
C23_WitnessMax ==
    /\ zoom.modal.currentScale = 5000
    /\ zoom.modal.active

\* C24: a click opens the modal for a diagram only when the diagram is at identity
\* (scale 1, translate 0, 0); a click on a diagram that is scaled or panned leaves
\* the modal as it was.
AtIdentity(nd) == nd.scale = 1000 /\ nd.translateX = 0 /\ nd.translateY = 0

C24_ClickOpensAtIdentity ==
    [][\A n \in Diagrams :
          /\ (Click(n) /\ ~AtIdentity(zoom.nodes[n])) =>
                (zoom'.modal = zoom.modal /\ zoom'.bodyLocked = zoom.bodyLocked)
          /\ (/\ zoom'.modal.active
              /\ zoom'.modal.content = n
              /\ ~zoom.modal.active \/ zoom.modal.content # n) =>
                AtIdentity(zoom.nodes[n])
          /\ (Click(n) /\ AtIdentity(zoom.nodes[n])) =>
                (zoom'.modal.active /\ zoom'.modal.content = n)]_vars

\* The modal shows diagram 1, which is at identity, next to a panned diagram 2.
C24_Witness ==
    /\ zoom.script = "enhanced"
    /\ zoom.modal.active
    /\ zoom.modal.content = 1
    /\ AtIdentity(zoom.nodes[1])
    /\ zoom.nodes[2].translateX = 1
    /\ ~zoom.nodes[2].isDragging

\* C25: the widget leaves every diagram node under the parent the page gave it.
C25_NodeStaysInPlace ==
    \A n \in Diagrams : ~zoom.nodes[n].wrapped

\* C26: the retry chain of attemptInit makes at most maxAttempts attempts and never
\* restarts; a run of interval scanning makes at most maxIntervalScans scans and
\* stops earlier when a non-zero count repeats; a detected change of pathname
\* restarts interval scanning with its counters reset; at most one interval timer
\* is alive.
C26_PollingTerminates ==
    [][/\ zoom'.initAttempts <= 20
       /\ zoom'.retryTimer => (zoom.retryTimer /\ zoom'.initAttempts < 20)
       /\ zoom'.initAttempts >= zoom.initAttempts
       /\ zoom'.intervalScans <= 15
       /\ zoom'.timers > 0 => zoom'.intervalScans < 15
       /\ zoom'.timers <= 1
       /\ (/\ zoom'.intervalScans = zoom.intervalScans + 1
           /\ zoom'.intervalScans > 1
           /\ zoom'.lastFoundCount > 0
           /\ zoom'.lastFoundCount = zoom.lastFoundCount) => zoom'.timers = 0
       /\ zoom'.lastPathname # zoom.lastPathname =>
             /\ zoom'.lastPathname = zoom.pathname
             /\ zoom'.intervalScans = 0
             /\ zoom'.lastFoundCount = 0
             /\ zoom'.timers = 1]_vars

\* No diagram ever showed up: twenty attempts, a navigation, fifteen more scans.
C26_Witness ==
    /\ zoom.script = "enhanced"
    /\ zoom.initAttempts = 20
    /\ ~zoom.retryTimer
    /\ zoom.lastPathname = RefSchemaPath
    /\ zoom.intervalScans = 15
    /\ zoom.timers = 0

\* C29: under the enhanced script a diagram root node that is in the document and
\* not initialized has a scan ahead of it: a retry of attemptInit, a scan scheduled
\* by the MutationObserver, a live scanning interval, or a change of pathname that
\* the navigation watcher is about to see.
C29_ScanAhead ==
    zoom.script = "enhanced" =>
        \A n \in Diagrams :
            (zoom.nodes[n].inDoc /\ zoom.nodes[n].svgs > 0 /\ ~zoom.nodes[n].marked) =>
                \/ zoom.retryTimer
                \/ zoom.rescans > 0
                \/ zoom.timers > 0
                \/ zoom.pathname # zoom.lastPathname


====
